---------------------------- MODULE Spec2Model ----------------------------
(***************************************************************************)
(* Model of synthetic-vcf-generator: the VirtualVCF generator              *)
(* (virtual_vcf.py), the reference store (vcf_reference.py) and the        *)
(* single-file and batch writers (vcf_generator.py).                       *)
(*                                                                         *)
(* The two pseudorandom sources are modelled as deterministic streams:     *)
(* random.Random (structural draws) and the process-global fastrand pcg32  *)
(* state (per-row draws).  A stream is a state in 0..RandMod-1 advanced by *)
(* a fixed step; a draw maps the state into the requested range.           *)
(***************************************************************************)
EXTENDS Integers, Sequences, FiniteSets, TLC

(* ------------------------------ bounds -------------------------------- *)
MaxRows == 2
MaxSamples == 3
MaxSeed == 3
MaxVcfs == 2
MaxThreads == 2
RandMod == 128

None == "None"
\* random_seed = None (no seed given)
NoSeed == -1

(* ------------------------- sequence helpers --------------------------- *)
Range(s) == {s[i] : i \in 1..Len(s)}

\* positions left in the order random.sample returned them
ListSortSkipped(s) == s

\* list.sort() on a list of integers (ascending)
RECURSIVE ListSort(_)
ListSort(s) ==
    IF Len(s) <= 1 THEN s
    ELSE LET m == CHOOSE i \in 1..Len(s) : \A j \in 1..Len(s) : s[i] <= s[j]
             rest == [k \in 1..(Len(s) - 1) |-> IF k < m THEN s[k] ELSE s[k + 1]]
         IN <<s[m]>> \o ListSort(rest)

\* indexing in which a negative index does not wrap but yields item 0
PyIndexNoWrap(s, i) == IF i >= 0 THEN s[i + 1] ELSE s[1]

\* Python indexing seq[i] with a possibly negative index (0-based)
PyIndex(s, i) == IF i >= 0 THEN s[i + 1] ELSE s[Len(s) + i + 1]

\* a rotation by slicing that repeats the first element instead of wrapping
DequeRotateNoWrap(d, n) ==
    [i \in 1..Len(d) |-> IF i - n >= 1 THEN d[i - n] ELSE d[1]]

\* a rotation the other way round: the first n items move to the end
DequeRotateLeft(d, n) ==
    IF Len(d) = 0 THEN d
    ELSE [i \in 1..Len(d) |-> d[((i - 1 + n) % Len(d)) + 1]]

\* collections.deque.rotate(n), n > 0: rotate n steps to the right
DequeRotate(d, n) ==
    IF Len(d) = 0 THEN d
    ELSE [i \in 1..Len(d) |-> d[((i - 1 - n) % Len(d)) + 1]]

(* --------------------- random.Random (Python) ------------------------- *)
\* state after one raw draw
PyNext(s) == (s + 47) % RandMod
\* Random(seed): the state a seed selects
PySeed(seed) == seed % RandMod
\* _randbelow(n) drawn in state s: a value in 0..n-1
PyRandBelow(s, n) == (s * n) \div RandMod

\* random.choice(seq) in state s
PyChoice(s, seq) == seq[PyRandBelow(s, Len(seq)) + 1]

\* itertools.accumulate(weights)
RECURSIVE Accumulate(_)
Accumulate(w) ==
    IF Len(w) = 0 THEN <<>>
    ELSE LET prev == Accumulate(SubSeq(w, 1, Len(w) - 1))
         IN Append(prev, (IF Len(prev) = 0 THEN 0 ELSE prev[Len(prev)]) + w[Len(w)])

\* bisect(cum, random() * total, 0, hi) with random() = s / RandMod:
\* the number of entries among cum[0..hi-1] that are <= random() * total
Bisect(cum, s, total, hi) ==
    Cardinality({i \in 1..hi : cum[i] * RandMod <= s * total})

\* random.choices(population, weights, k) from state s: <<values, state>>
RECURSIVE PyChoices(_, _, _, _)
PyChoices(s, population, cum, k) ==
    IF k = 0 THEN [vals |-> <<>>, state |-> s]
    ELSE LET idx == Bisect(cum, s, cum[Len(cum)], Len(population) - 1)
             rest == PyChoices(PyNext(s), population, cum, k - 1)
         IN [vals |-> <<population[idx + 1]>> \o rest.vals, state |-> rest.state]

\* random.sample, pool branch (n <= setsize): draw j below n - i, take
\* pool[j], move the last live element into slot j
RECURSIVE SamplePool(_, _, _, _)
SamplePool(s, pool, n, k) ==
    IF k = 0 THEN [vals |-> <<>>, state |-> s]
    ELSE LET j == PyRandBelow(s, n)
             pool2 == [pool EXCEPT ![j + 1] = pool[n]]
             rest == SamplePool(PyNext(s), pool2, n - 1, k - 1)
         IN [vals |-> <<pool[j + 1]>> \o rest.vals, state |-> rest.state]

\* random.sample, set branch (n > setsize): redraw while j was selected
RECURSIVE SampleSet(_, _, _, _, _)
SampleSet(s, lo, n, k, selected) ==
    IF k = 0 THEN [vals |-> <<>>, state |-> s]
    ELSE LET j == PyRandBelow(s, n)
         IN IF j \in selected
            THEN SampleSet(PyNext(s), lo, n, k, selected)
            ELSE LET rest == SampleSet(PyNext(s), lo, n, k - 1, selected \cup {j})
                 IN [vals |-> <<lo + j>> \o rest.vals, state |-> rest.state]

\* setsize of random.sample for k draws (k <= 21)
SampleSetSize(k) == IF k > 5 THEN 21 + 64 ELSE 21

\* random.sample(range(1, length), k): raises ValueError when k exceeds
\* the population size
PySample(s, length, k) ==
    LET n == IF length > 1 THEN length - 1 ELSE 0
    IN IF k > n THEN [ok |-> FALSE, vals |-> <<>>, state |-> s]
       ELSE LET r == IF n <= SampleSetSize(k)
                     THEN SamplePool(s, [i \in 1..n |-> i], n, k)
                     ELSE SampleSet(s, 1, n, k, {})
            IN [ok |-> TRUE, vals |-> r.vals, state |-> r.state]

(* ----------------------- fastrand (pcg32) ----------------------------- *)
FrNext(s) == (s + 79) % RandMod
\* pcg32_seed(seed)
FrSeed(seed) == seed % RandMod
\* pcg32randint(a, b) drawn in state s: a value in a..b, both inclusive
FrRandInt(s, a, b) == a + ((s * (b - a + 1)) \div RandMod)

(* ------------------------- reference store ---------------------------- *)
\* chromosomes listed in sequence_metadata.json ("reference_files")
ManifestChromosomes == {"chr1", "chr2"}
\* ReferenceData.open(): open() raises for a missing file, mmap.mmap(length=0)
\* raises for an empty one
RefOpenOk(file) == file.exists /\ Len(file.bytes) > 0
\* ReferenceData.ref_length(): mmap size
RefLength(file) == Len(file.bytes)
\* ReferenceData.get_ref_at_pos(position): the slice [position, position+1)
\* of the mapping (0-based), decoded
GetRefAtPos(file, position) ==
    IF position + 1 \in 1..Len(file.bytes) THEN file.bytes[position + 1] ELSE ""

(* --------------------------- VirtualVCF ------------------------------- *)
alleles == <<"A", "C", "G", "T">>
IdTypes == {"count", "padded_count", "uuid"}

\* alleles.index(ref), 0-based
AlleleIndex(ref) == (CHOOSE i \in 1..Len(alleles) : alleles[i] = ref) - 1

\* str.startswith on token sequences
StartsWith(s, prefix) ==
    Len(prefix) <= Len(s) /\ SubSeq(s, 1, Len(prefix)) = prefix

\* str.replace(old, new, 1) on token sequences: the first occurrence only
StrReplaceFirst(s, old, new) ==
    LET hits == {i \in 1..(Len(s) - Len(old) + 1) :
                    SubSeq(s, i, i + Len(old) - 1) = old}
    IN IF hits = {} THEN s
       ELSE LET i == CHOOSE h \in hits : \A k \in hits : h <= k
            IN SubSeq(s, 1, i - 1) \o new \o SubSeq(s, i + Len(old), Len(s))

extra_data == << "0,30:30:89:913,89,0", "0,10:10:49:413,33,0",
                 "0,20:20:55:489,89,0", "0,40:00:66:726,85,0" >>

\* max_rotation as computed in __init__
MaxRotation(num_samples) ==
    IF num_samples >= 10 THEN num_samples \div 10 ELSE num_samples

\* sample_values before the large-format suffix is added
BaseSampleValues(phased) ==
    IF phased
    THEN << <<"0", "|", "0">>, <<"1", "|", "0">>, <<"0", "|", "1">>, <<"1", "|", "1">> >>
    ELSE << <<"0", "/", "0">>, <<"0", "/", "1">>, <<"1", "/", "1">> >>

SampleValueWeights(phased, num_samples) ==
    IF phased
    THEN << num_samples * 10, num_samples \div 500, num_samples \div 500,
            num_samples \div 300 >>
    ELSE << num_samples * 10, num_samples \div 250, num_samples \div 300 >>

\* f"{sv}:{random.choice(extra_data)}" for every sv, one draw each
RECURSIVE AddExtraData(_, _)
AddExtraData(s, values) ==
    IF Len(values) = 0 THEN [vals |-> <<>>, state |-> s]
    ELSE LET rest == AddExtraData(PyNext(s), Tail(values))
         IN [vals |-> <<Head(values) \o <<":", PyChoice(s, extra_data)>> >> \o rest.vals,
             state |-> rest.state]

\* the forced mutation with the phased pattern used for both phasings
ForceNonReferencePhasedOnly(phased, samples) ==
    [samples EXCEPT ![1] =
        StrReplaceFirst(samples[1], <<"0", "|", "0">>, <<"1", "|", "0">>)]

\* the forced mutation of available_samples[0] when every sample starts
\* with sample_values[0]
ForceNonReference(phased, samples) ==
    IF phased
    THEN [samples EXCEPT ![1] = StrReplaceFirst(samples[1], <<"0">>, <<"1">>)]
    ELSE [samples EXCEPT ![1] =
              StrReplaceFirst(samples[1], <<"0", "/", "0">>, <<"0", "/", "1">>)]

\* _generate_samples: <<sample_values, available_samples, random state>>
GenerateSamples(s, phased, large_format, num_samples) ==
    LET base == BaseSampleValues(phased)
        ext == IF large_format THEN AddExtraData(s, base)
               ELSE [vals |-> base, state |-> s]
        drawn == PyChoices(ext.state, ext.vals,
                           Accumulate(SampleValueWeights(phased, num_samples)),
                           num_samples)
        allref == \A i \in 1..Len(drawn.vals) : StartsWith(drawn.vals[i], ext.vals[1])
    IN [sample_values |-> ext.vals,
        available_samples |-> IF allref THEN ForceNonReference(phased, drawn.vals)
                              ELSE drawn.vals,
        state |-> drawn.state]

\* the checks of __init__ without the one on num_rows
ConfigValidNoRowCheck(c) ==
    /\ c.num_samples >= 1
    /\ c.id_type \in IdTypes

\* the checks at the top of __init__
ConfigValid(c) ==
    /\ c.num_samples >= 1
    /\ c.num_rows >= 1
    /\ c.id_type \in IdTypes

\* _setup_reference_data: every configured chromosome must be a key of
\* reference_metadata["reference_files"]
SetupReferenceOk(c) ==
    c.reference_dir => \A i \in 1..Len(c.chromosomes) :
                          c.chromosomes[i] \in ManifestChromosomes

\* VirtualVCF.__init__ in a process whose fastrand state is fr; urandom is
\* the operating-system entropy random.Random(None) seeds itself from
Construct(c, fr, urandom) ==
    IF ~ConfigValid(c) \/ ~SetupReferenceOk(c)
    THEN [ok |-> FALSE, vcf |-> None, fastrand |-> fr]
    ELSE LET seeded == c.random_seed # NoSeed
             s0 == IF seeded THEN PySeed(c.random_seed) ELSE urandom
             gs == GenerateSamples(s0, c.phased, c.large_format, c.num_samples)
         IN [ok |-> TRUE,
             vcf |-> [num_rows |-> c.num_rows,
                      num_samples |-> c.num_samples,
                      max_rotation |-> MaxRotation(c.num_samples),
                      chromosomes |-> c.chromosomes,
                      id_type |-> c.id_type,
                      phased |-> c.phased,
                      large_format |-> c.large_format,
                      reference_dir |-> c.reference_dir,
                      random |-> gs.state,
                      sample_values |-> gs.sample_values,
                      available_samples |-> gs.available_samples],
             fastrand |-> IF seeded THEN FrSeed(c.random_seed) ELSE fr]

(* ------------------- one generation pass (__iter__) ------------------- *)
\* A pass is the generator frame of __iter__ together with the object it
\* runs on and the process state it reads and writes:
\*   pc             position of the generator
\*   vcf            the VirtualVCF object (random state, available_samples)
\*   fastrand       the pcg32 state of the process executing the pass
\*   chrom          index into vcf.chromosomes of the current chromosome
\*   reference_data chromosome whose ReferenceData the loop holds, or None
\*   positions/next the sorted positions and the index of the next one
\*   handles        ReferenceData objects opened and not closed
\*   unreferenced   those of them the program holds no reference to any
\*                  more: only the interpreter's finalizer can release them
\*   out            the lines yielded so far
\*   error          the exception that ended the pass, or None:
\*                  "reference_unavailable" (ReferenceData.open raised) or
\*                  "sample_too_large" (random.sample raised ValueError)
NewPass(vcf, fr) ==
    [pc |-> "unstarted", vcf |-> vcf, fastrand |-> fr, chrom |-> 0,
     reference_data |-> None, positions |-> <<>>, next |-> 1,
     handles |-> 0, unreferenced |-> 0, out |-> <<>>, error |-> None]

\* _get_chromosome_length(chromosome) as the header calls it (no handle
\* passed in): [ok, length]
HeaderChromosomeLength(vcf, store, c) ==
    IF vcf.reference_dir
    THEN [ok |-> RefOpenOk(store[c]), length |-> RefLength(store[c])]
    ELSE [ok |-> TRUE, length |-> vcf.num_rows * 100]

\* the sample-name columns of the header; uuid.uuid4() is a fresh token,
\* numbered from the count of tokens issued so far
SampleNames(vcf, uuid_issued) ==
    [i \in 1..vcf.num_samples |->
        IF vcf.id_type = "uuid"
        THEN [style |-> "uuid", n |-> uuid_issued + i]
        ELSE [style |-> vcf.id_type, n |-> i]]

UuidsDrawn(vcf) == IF vcf.id_type = "uuid" THEN vcf.num_samples ELSE 0

\* first resumption: yield self._generate_vcf_header()
HeaderStep(r, store, uuid_issued) ==
    LET vcf == r.vcf
        n == Len(vcf.chromosomes)
        lens == [i \in 1..n |-> HeaderChromosomeLength(vcf, store, vcf.chromosomes[i])]
        bad == {i \in 1..n : ~lens[i].ok}
        firstbad == IF bad = {} THEN n + 1
                    ELSE CHOOSE i \in bad : \A j \in bad : i <= j
        opened == IF vcf.reference_dir THEN firstbad - 1 ELSE 0
    IN IF bad # {}
       THEN [r EXCEPT !.pc = "raised", !.handles = r.handles + opened,
                      !.unreferenced = r.unreferenced + opened,
                      !.error = "reference_unavailable"]
       ELSE [r EXCEPT !.pc = "header_emitted",
                      !.handles = r.handles + opened,
                      !.unreferenced = r.unreferenced + opened,
                      !.out = Append(r.out,
                          [kind |-> "header",
                           contigs |-> [i \in 1..n |->
                               <<vcf.chromosomes[i], lens[i].length>>],
                           large_format |-> vcf.large_format,
                           columns |-> SampleNames(vcf, uuid_issued)])]

\* lines 285-295: load and open the chromosome's reference, take its
\* length, sample and sort the positions
OpenStep(r, store) ==
    LET vcf == r.vcf
        k == r.chrom + 1
        c == vcf.chromosomes[k]
    IN IF vcf.reference_dir /\ ~RefOpenOk(store[c])
       THEN [r EXCEPT !.pc = "raised", !.chrom = k,
                      !.error = "reference_unavailable"]
       ELSE LET length == IF vcf.reference_dir THEN RefLength(store[c])
                          ELSE vcf.num_rows * 100
                smp == PySample(vcf.random, length, vcf.num_rows)
                held == IF vcf.reference_dir THEN c ELSE None
                h == IF vcf.reference_dir THEN r.handles + 1 ELSE r.handles
            IN IF ~smp.ok
               THEN [r EXCEPT !.pc = "raised", !.chrom = k,
                              !.reference_data = held, !.handles = h,
                              !.error = "sample_too_large"]
               ELSE [r EXCEPT !.pc = "opened", !.chrom = k,
                              !.reference_data = held, !.handles = h,
                              !.vcf.random = smp.state,
                              !.positions = ListSort(smp.vals),
                              !.next = 1]

\* the ALT offset taken one too small, so that it can be 0
RefAltOffByOne(vcf, store, reference_data, position, ref_index, allele_index) ==
    LET ref == IF reference_data # None
               THEN GetRefAtPos(store[reference_data], position - 1)
               ELSE alleles[ref_index + 1]
        alt == IF ref \in Range(alleles)
               THEN PyIndex(alleles, AlleleIndex(ref) - (allele_index - 1))
               ELSE PyIndex(alleles, ref_index - (allele_index - 1))
    IN [ref |-> ref, alt |-> alt]

\* _get_ref_alt_at_position with the two draws already made
RefAlt(vcf, store, reference_data, position, ref_index, allele_index) ==
    LET ref == IF reference_data # None
               THEN GetRefAtPos(store[reference_data], position - 1)
               ELSE alleles[ref_index + 1]
        alt == IF ref \in Range(alleles)
               THEN PyIndex(alleles, AlleleIndex(ref) - allele_index)
               ELSE PyIndex(alleles, ref_index - allele_index)
    IN [ref |-> ref, alt |-> alt]

\* a QUAL drawn from a range whose upper end is one too high
QualOneTooHigh(s) == FrRandInt(s, 10, 101)

\* line 169: qual = pcg32randint(10, 100), drawn in state s
Qual(s) == FrRandInt(s, 10, 100)

\* _generate_vcf_row for the next position: four fastrand draws, one
\* rotation of available_samples, one line
RowStep(r, store) ==
    LET vcf == r.vcf
        f0 == r.fastrand
        ref_index == FrRandInt(f0, 0, 3)
        f1 == FrNext(f0)
        allele_index == FrRandInt(f1, 1, 3)
        f2 == FrNext(f1)
        qual == Qual(f2)
        f3 == FrNext(f2)
        rot == FrRandInt(f3, 1, vcf.max_rotation)
        f4 == FrNext(f3)
        position == r.positions[r.next]
        ra == RefAlt(vcf, store, r.reference_data, position, ref_index, allele_index)
        samples == DequeRotate(vcf.available_samples, rot)
    IN [r EXCEPT !.pc = "emitting",
                 !.fastrand = f4,
                 !.vcf.available_samples = samples,
                 !.next = r.next + 1,
                 !.out = Append(r.out,
                     [kind |-> "row",
                      chrom |-> vcf.chromosomes[r.chrom],
                      pos |-> position,
                      ref |-> ra.ref, alt |-> ra.alt, qual |-> qual,
                      info |-> vcf.num_samples,
                      fmt |-> IF vcf.large_format THEN "GT:AD:DP:GQ:PL" ELSE "GT",
                      samples |-> samples])]

\* lines 299-300: close the handle the loop holds, if any
CloseStep(r) ==
    [r EXCEPT !.pc = "closed",
              !.reference_data = None,
              !.handles = IF r.reference_data # None THEN r.handles - 1
                          ELSE r.handles]

\* the consumer stops iterating while the generator is suspended at a
\* yield: the frame keeps its locals, and no finally clause closes the
\* handle the loop holds
AbandonStep(r) == [r EXCEPT !.pc = "abandoned"]

\* the interpreter finalizes one ReferenceData the program dropped without
\* close(); Python leaves to the implementation when, and whether, it does
FinalizeStep(r) ==
    [r EXCEPT !.handles = r.handles - 1, !.unreferenced = r.unreferenced - 1]

\* the for loop over chromosomes is exhausted: the generator returns
FinishStep(r) == [r EXCEPT !.pc = "done"]

\* a row loop that stops one position early
RowsLeftButOne(r) == r.next < Len(r.positions)

RowsLeft(r) == r.next <= Len(r.positions)
ChromosomesLeft(r) == r.chrom < Len(r.vcf.chromosomes)

\* one resumption of the generator, whichever it is
PassNext(r, store, uuid_issued) ==
    CASE r.pc = "unstarted" -> HeaderStep(r, store, uuid_issued)
      [] r.pc \in {"header_emitted", "closed"} /\ ChromosomesLeft(r) -> OpenStep(r, store)
      [] r.pc \in {"opened", "emitting"} /\ RowsLeft(r) -> RowStep(r, store)
      [] r.pc \in {"opened", "emitting"} /\ ~RowsLeft(r) -> CloseStep(r)
      [] OTHER -> FinishStep(r)

\* write_fileobj: for line in v_vcf, to exhaustion or to the exception
RECURSIVE RunPass(_, _, _)
RunPass(r, store, uuid_issued) ==
    IF r.pc \in {"done", "raised"} THEN r
    ELSE RunPass(PassNext(r, store, uuid_issued), store, uuid_issued)

(* ------------------------------ inputs -------------------------------- *)
SampleCounts == (0..MaxSamples) \cup {10}
Seeds == {NoSeed} \cup (0..MaxSeed)
ChromosomeLists == { <<"chr1">>, <<"chr1", "chr2">>, <<"chr1", "chr3">> }

\* reference directories: the sequence file behind each manifest entry
StoreOf(bytes1, exists2, bytes2) ==
    [c \in ManifestChromosomes |->
        IF c = "chr1" THEN [exists |-> TRUE, bytes |-> bytes1]
        ELSE [exists |-> exists2, bytes |-> bytes2]]
\* every file long enough for MaxRows rows
StoreLong == StoreOf(<<"A", "C", "N", "G", "T">>, TRUE, <<"T", "N", "A">>)
\* chr2 holds two bases: one position to draw from
StoreShort == StoreOf(<<"T", "N", "A", "G">>, TRUE, <<"G", "C">>)
\* chr2 is an empty file
StoreEmpty == StoreOf(<<"C", "G", "T">>, TRUE, <<>>)
\* chr2 is listed in the manifest but its file is gone
StoreMissing == StoreOf(<<"G", "A", "N">>, FALSE, <<>>)
Stores == {StoreLong, StoreShort, StoreEmpty, StoreMissing}
\* the directory read when no reference directory is configured
NoStore == [c \in ManifestChromosomes |-> [exists |-> FALSE, bytes |-> <<>>]]

Configs ==
    [num_rows : 0..MaxRows,
     num_samples : SampleCounts,
     chromosomes : ChromosomeLists,
     id_type : IdTypes \cup {"other"},
     random_seed : Seeds,
     phased : BOOLEAN,
     large_format : BOOLEAN,
     reference_dir : BOOLEAN]

\* states a fresh process may find fastrand's global generator in, and
\* values the operating system's entropy may seed random.Random(None) with
BootStates == {1, 70, 97}
UrandomStates == {9, 100}

(* ------------------------------ state --------------------------------- *)
VARIABLES
    cfg,          \* the arguments of the invocation
    store,        \* the reference directory on disk
    uuid_issued,  \* number of uuid.uuid4() tokens issued so far
    phase,        \* position of synthetic_vcf_data / batch_synthetic_vcf_data
    run,          \* the pass of the invoking process (object, frame, fastrand)
    file_opened,  \* write_file has opened the output file
    attempt,      \* 1 for the first single-file run, 2 for the repeated one
    first_out,    \* the lines the first run wrote
    dir,          \* batch: the output directory ("absent", "preexisting", "created")
    tasks,        \* batch: the write_file tasks submitted to the pool, in order
    workers,      \* batch: the pool's worker processes
    probe         \* one call of _get_ref_alt_at_position, apart from any pass

singleVars == <<file_opened, attempt, first_out>>
batchVars == <<dir, tasks, workers>>
vars == <<cfg, store, uuid_issued, phase, run, singleVars, batchVars, probe>>

\* no call of _get_ref_alt_at_position is under study
NoProbe ==
    [pc |-> "idle", reference_data |-> None, position |-> 0, s_ref |-> 0,
     s_alt |-> 0, ref_index |-> 0, allele_index |-> 0, ref |-> "", alt |-> ""]

\* a process that has not constructed a VirtualVCF yet
FreshProcess(boot) == [NewPass(None, boot) EXCEPT !.pc = "absent"]

InitInputs ==
    /\ cfg \in Configs
    /\ store \in (IF cfg.reference_dir THEN Stores ELSE {NoStore})
    /\ uuid_issued = 0

Init ==
    /\ InitInputs
    /\ phase = "start"
    /\ run \in {FreshProcess(b) : b \in BootStates}
    /\ file_opened = FALSE
    /\ attempt = 1
    /\ first_out = <<>>
    /\ dir = "absent"
    /\ tasks = <<>>
    /\ workers = <<>>
    /\ probe = NoProbe

(* ------------------- synthetic_vcf_data (single file) ----------------- *)
\* lines 113-123: VirtualVCF(...)
ConstructVcf ==
    /\ phase = "start"
    /\ \E u \in (IF cfg.random_seed = NoSeed THEN UrandomStates ELSE {0}) :
         LET c == Construct(cfg, run.fastrand, u)
         IN IF c.ok
            THEN /\ run' = NewPass(c.vcf, c.fastrand)
                 /\ phase' = "constructed"
            ELSE /\ run' = run
                 /\ phase' = "setup_failed"
    /\ UNCHANGED <<probe, cfg, store, uuid_issued, file_opened, attempt, first_out, batchVars>>

\* write_file: open(synthetic_vcf_path, "wb") succeeds or raises
OpenSink ==
    /\ phase = "constructed"
    /\ \E ok \in BOOLEAN :
         /\ file_opened' = ok
         /\ phase' = IF ok THEN "writing" ELSE "sink_failed"
    /\ UNCHANGED <<probe, cfg, store, uuid_issued, run, attempt, first_out, batchVars>>

\* first next() of the generator: the header is built and written
EmitHeader ==
    /\ phase = "writing"
    /\ run.pc = "unstarted"
    /\ LET r == HeaderStep(run, store, uuid_issued)
       IN /\ run' = r
          /\ uuid_issued' = IF r.pc = "raised" THEN uuid_issued
                            ELSE uuid_issued + UuidsDrawn(run.vcf)
          /\ phase' = IF r.pc = "raised" THEN "pass_failed" ELSE phase
    /\ UNCHANGED <<probe, cfg, store, file_opened, attempt, first_out, batchVars>>

OpenChromosome ==
    /\ phase = "writing"
    /\ run.pc \in {"header_emitted", "closed"}
    /\ ChromosomesLeft(run)
    /\ LET r == OpenStep(run, store)
       IN /\ run' = r
          /\ phase' = IF r.pc = "raised" THEN "pass_failed" ELSE phase
    /\ UNCHANGED <<probe, cfg, store, uuid_issued, file_opened, attempt, first_out, batchVars>>

EmitRow ==
    /\ phase = "writing"
    /\ run.pc \in {"opened", "emitting"}
    /\ RowsLeft(run)
    /\ run' = RowStep(run, store)
    /\ UNCHANGED <<probe, cfg, store, uuid_issued, phase, file_opened, attempt, first_out, batchVars>>

CloseChromosome ==
    /\ phase = "writing"
    /\ run.pc \in {"opened", "emitting"}
    /\ ~RowsLeft(run)
    /\ run' = CloseStep(run)
    /\ UNCHANGED <<probe, cfg, store, uuid_issued, phase, file_opened, attempt, first_out, batchVars>>

\* StopIteration: write_file leaves its with block and returns
Finish ==
    /\ phase = "writing"
    /\ run.pc = "closed"
    /\ ~ChromosomesLeft(run)
    /\ run' = FinishStep(run)
    /\ phase' = "returned"
    /\ UNCHANGED <<probe, cfg, store, uuid_issued, file_opened, attempt, first_out, batchVars>>

\* write_fileobj: fileobj.write raises on the line just yielded; the for
\* loop is left by the exception and the generator is not resumed
AbandonPass ==
    /\ phase = "writing"
    /\ run.pc \in {"header_emitted", "emitting"}
    /\ run' = AbandonStep(run)
    /\ phase' = "sink_failed"
    /\ UNCHANGED <<probe, cfg, store, uuid_issued, file_opened, attempt, first_out, batchVars>>

\* garbage collection in the invoking process
Finalize ==
    /\ run.pc # "absent"
    /\ run.unreferenced > 0
    /\ run' = FinalizeStep(run)
    /\ UNCHANGED <<probe, cfg, store, uuid_issued, phase, file_opened, attempt, first_out, batchVars>>

\* the same invocation run again in a fresh process
RunAgain ==
    /\ phase = "returned"
    /\ attempt = 1
    /\ attempt' = 2
    /\ first_out' = run.out
    /\ phase' = "start"
    /\ run' \in {FreshProcess(b) : b \in BootStates}
    /\ file_opened' = FALSE
    /\ UNCHANGED <<probe, cfg, store, uuid_issued, batchVars>>

Next ==
    \/ ConstructVcf
    \/ OpenSink
    \/ EmitHeader
    \/ OpenChromosome
    \/ EmitRow
    \/ CloseChromosome
    \/ Finish
    \/ AbandonPass
    \/ Finalize
    \/ RunAgain

Spec == Init /\ [][Next]_vars

(* ---------------------- batch_synthetic_vcf_data ---------------------- *)
\* The pool is modelled with the fork start method: a worker process is a
\* copy of the parent at Pool(...), fastrand's global state included.  A
\* task's arguments are pickled, so each task runs on its own copy of the
\* VirtualVCF object; fastrand's state belongs to the worker process.
BatchConfigs ==
    [num_rows : {0, MaxRows},
     num_samples : {0, 2},
     chromosomes : { <<"chr1">>, <<"chr1", "chr2">> },
     id_type : {"padded_count", "uuid", "other"},
     random_seed : {NoSeed, 1},
     phased : {TRUE},
     large_format : {FALSE},
     reference_dir : BOOLEAN,
     num_vcfs : 1..MaxVcfs,
     num_threads : 1..MaxThreads]

\* the fastrand state the parent process of a batch starts in, and the
\* entropy its random.Random(None) is seeded with
BatchBootStates == {1}
BatchUrandomStates == {9}

InitBatch ==
    /\ cfg \in BatchConfigs
    /\ store \in (IF cfg.reference_dir THEN {StoreLong, StoreShort} ELSE {NoStore})
    /\ uuid_issued = 0
    /\ phase = "start"
    /\ run \in {FreshProcess(b) : b \in BatchBootStates}
    /\ file_opened = FALSE
    /\ attempt = 1
    /\ first_out = <<>>
    /\ dir \in {"absent", "preexisting"}
    /\ tasks = <<>>
    /\ workers = <<>>
    /\ probe = NoProbe

\* lines 167-168: create the output directory when it does not exist
BatchMkdir ==
    /\ phase = "start"
    /\ dir' = IF dir = "absent" THEN "created" ELSE dir
    /\ phase' = "dir_ready"
    /\ UNCHANGED <<probe, cfg, store, uuid_issued, run, singleVars, tasks, workers>>

\* lines 170-180: VirtualVCF(...) in the parent process
BatchConstruct ==
    /\ phase = "dir_ready"
    /\ \E u \in (IF cfg.random_seed = NoSeed THEN BatchUrandomStates ELSE {0}) :
         LET c == Construct(cfg, run.fastrand, u)
         IN IF c.ok
            THEN /\ run' = NewPass(c.vcf, c.fastrand)
                 /\ phase' = "constructed"
            ELSE /\ run' = run
                 /\ phase' = "setup_failed"
    /\ UNCHANGED <<probe, cfg, store, uuid_issued, singleVars, batchVars>>

\* line 184: multiprocessing.Pool(num_threads) forks the workers
CreatePool ==
    /\ phase = "constructed"
    /\ workers' = [w \in 1..cfg.num_threads |->
                      [fastrand |-> run.fastrand, task |-> 0]]
    /\ phase' = "dispatching"
    /\ UNCHANGED <<probe, cfg, store, uuid_issued, run, singleVars, dir, tasks>>

\* lines 186-188: one apply_async(write_file, (virtual_vcf, output_type,
\* filepath)); the file name carries a fresh uuid4 token
Dispatch ==
    /\ phase = "dispatching"
    /\ Len(tasks) < cfg.num_vcfs
    /\ tasks' = Append(tasks, [path |-> uuid_issued + 1,
                               vcf |-> run.vcf,
                               status |-> "pending",
                               worker |-> 0,
                               file_created |-> FALSE,
                               out |-> <<>>])
    /\ uuid_issued' = uuid_issued + 1
    /\ UNCHANGED <<probe, cfg, store, phase, run, singleVars, dir, workers>>

\* the for loop of line 185 is finished
DispatchDone ==
    /\ phase = "dispatching"
    /\ Len(tasks) = cfg.num_vcfs
    /\ phase' = "waiting"
    /\ UNCHANGED <<probe, cfg, store, uuid_issued, run, singleVars, batchVars>>

\* an idle worker takes the oldest pending task and write_file opens the
\* output file, which succeeds or raises
TaskStart(w) ==
    /\ phase \in {"dispatching", "waiting"}
    /\ workers[w].task = 0
    /\ \E t \in 1..Len(tasks) :
         /\ tasks[t].status = "pending"
         /\ \A t2 \in 1..(t - 1) : tasks[t2].status # "pending"
         /\ \E ok \in BOOLEAN :
              IF ok
              THEN /\ tasks' = [tasks EXCEPT ![t].status = "running",
                                             ![t].worker = w,
                                             ![t].file_created = TRUE]
                   /\ workers' = [workers EXCEPT ![w].task = t]
              ELSE /\ tasks' = [tasks EXCEPT ![t].status = "failed",
                                             ![t].worker = w]
                   /\ workers' = workers
    /\ UNCHANGED <<probe, cfg, store, uuid_issued, phase, run, singleVars, dir>>

\* the worker iterates its copy of the generator to the end and writes the
\* lines; the pass reads and advances the worker's fastrand state
TaskFinish(w) ==
    /\ workers[w].task # 0
    /\ LET t == workers[w].task
           r == RunPass(NewPass(tasks[t].vcf, workers[w].fastrand), store, uuid_issued)
       IN /\ tasks' = [tasks EXCEPT ![t].status = IF r.pc = "done" THEN "done"
                                                  ELSE "failed",
                                    ![t].out = r.out]
          /\ workers' = [workers EXCEPT ![w].task = 0,
                                        ![w].fastrand = r.fastrand]
          /\ uuid_issued' = IF Len(r.out) > 0
                            THEN uuid_issued + UuidsDrawn(tasks[t].vcf)
                            ELSE uuid_issued
    /\ UNCHANGED <<probe, cfg, store, phase, run, singleVars, dir>>

\* a wait that covers the first submitted result only
WaitFirstOnly ==
    /\ phase = "waiting"
    /\ Len(tasks) > 0 => tasks[1].status \in {"done", "failed"}
    /\ phase' = "returned"
    /\ UNCHANGED <<probe, cfg, store, uuid_issued, run, singleVars, batchVars>>

\* line 189: [r.wait() for r in results] returns once every result is
\* ready; wait() does not re-raise a task's exception
WaitAll ==
    /\ phase = "waiting"
    /\ \A t \in 1..Len(tasks) : tasks[t].status \in {"done", "failed"}
    /\ phase' = "returned"
    /\ UNCHANGED <<probe, cfg, store, uuid_issued, run, singleVars, batchVars>>

NextBatch ==
    \/ BatchMkdir
    \/ BatchConstruct
    \/ CreatePool
    \/ Dispatch
    \/ DispatchDone
    \/ \E w \in 1..MaxThreads : w \in DOMAIN workers /\ TaskStart(w)
    \/ \E w \in 1..MaxThreads : w \in DOMAIN workers /\ TaskFinish(w)
    \/ WaitAll

SpecBatch == InitBatch /\ [][NextBatch]_vars

(* ------------------- _get_ref_alt_at_position alone ------------------- *)
\* The function is called once on a VirtualVCF with or without a reference
\* directory.  Its two fastrand draws are made in generator states s_ref and
\* s_alt taken independently of each other, so that every pair of outcomes
\* occurs, which the additive stream above does not deliver in one pass.
FastrandStates == 0..(RandMod - 1)

InitRefAlt ==
    /\ cfg \in {c \in Configs :
                  /\ c.num_rows = 1 /\ c.num_samples = 1
                  /\ c.chromosomes = <<"chr1", "chr2">>
                  /\ c.id_type = "count" /\ c.random_seed = NoSeed
                  /\ c.phased /\ ~c.large_format}
    /\ store = (IF cfg.reference_dir THEN StoreLong ELSE NoStore)
    /\ uuid_issued = 0
    /\ phase = "start"
    /\ run = FreshProcess(0)
    /\ file_opened = FALSE
    /\ attempt = 1
    /\ first_out = <<>>
    /\ dir = "absent"
    /\ tasks = <<>>
    /\ workers = <<>>
    /\ \E rd \in (IF cfg.reference_dir THEN {"chr1", "chr2"} ELSE {None}) :
       \E p \in (IF rd = None THEN {1} ELSE 1..(RefLength(store[rd]) - 1)) :
       \E s1, s2 \in FastrandStates :
          probe = [NoProbe EXCEPT !.pc = "called", !.reference_data = rd,
                                  !.position = p, !.s_ref = s1, !.s_alt = s2]

\* lines 149-159: the two draws, then REF and ALT
GetRefAltAtPosition ==
    /\ probe.pc = "called"
    /\ LET ref_index == FrRandInt(probe.s_ref, 0, 3)
           allele_index == FrRandInt(probe.s_alt, 1, 3)
           ra == RefAlt(cfg, store, probe.reference_data, probe.position,
                        ref_index, allele_index)
       IN probe' = [probe EXCEPT !.pc = "returned",
                                 !.ref_index = ref_index,
                                 !.allele_index = allele_index,
                                 !.ref = ra.ref, !.alt = ra.alt]
    /\ UNCHANGED <<cfg, store, uuid_issued, phase, run, singleVars, batchVars>>

NextRefAlt == GetRefAltAtPosition

SpecRefAlt == InitRefAlt /\ [][NextRefAlt]_vars

(* ============================== claims ================================ *)
RowsOf(out) == {i \in 1..Len(out) : out[i].kind = "row"}
Canonical == {"A", "C", "G", "T"}
\* the length __iter__ uses for a chromosome
ChromosomeLength(c) ==
    IF cfg.reference_dir THEN Len(store[c].bytes) ELSE cfg.num_rows * 100
\* the homozygous-reference core patterns
HomRef == { <<"0", "|", "0">>, <<"0", "/", "0">> }
Core(sample) == SubSeq(sample, 1, 3)
Multiset(s) == [v \in Range(s) |-> Cardinality({i \in 1..Len(s) : s[i] = v})]

\* C1 (as claimed): after a batch with a seed, a reference directory and
\* sequential sample IDs, all completely written files hold the same lines,
\* whichever worker wrote which file.
C1_BatchIdentical ==
    (phase = "returned" /\ cfg.random_seed # NoSeed /\ cfg.reference_dir
        /\ cfg.id_type # "uuid")
    => \A i, j \in 1..Len(tasks) :
          (tasks[i].status = "done" /\ tasks[j].status = "done")
              => tasks[i].out = tasks[j].out

\* C2 (as claimed): batch_synthetic_vcf_data does not return normally when
\* one of its tasks failed.
C2_FailurePropagates ==
    phase = "returned" => \A t \in 1..Len(tasks) : tasks[t].status # "failed"

\* C3 (as claimed): two single-file runs with the same seed and the same
\* configuration write the same lines, header included.
C3_Reproducible ==
    (attempt = 2 /\ phase = "returned" /\ cfg.random_seed # NoSeed)
        => run.out = first_out

\* C4 (as claimed): in every emitted row REF differs from ALT and both are
\* letters of {A,C,G,T}, with or without a reference directory.
C4_RefAltCanonical ==
    \A i \in RowsOf(run.out) :
        /\ run.out[i].ref # run.out[i].alt
        /\ run.out[i].ref \in Canonical
        /\ run.out[i].alt \in Canonical

\* C4 (amended): in every emitted row ALT is a letter of {A,C,G,T} and
\* differs from REF; REF is a letter of {A,C,G,T} when no reference
\* directory is configured, and otherwise the byte the reference sequence
\* holds at the row's position, canonical or not.
C4_AltCanonicalRefFromStore ==
    \A i \in RowsOf(run.out) :
        LET row == run.out[i]
        IN /\ row.alt \in Canonical
           /\ row.ref # row.alt
           /\ ~cfg.reference_dir => row.ref \in Canonical
           /\ cfg.reference_dir => row.ref = store[row.chrom].bytes[row.pos]

\* C4 witness: a row whose REF is a non-canonical reference byte
C4_Witness ==
    \E i \in RowsOf(run.out) :
        /\ cfg.reference_dir
        /\ run.out[i].ref = "N"
        /\ run.out[i].alt \in Canonical

\* C5 (as claimed): once construction has succeeded the pass never raises
\* for a reason other than an unavailable reference file; in particular
\* not for a reference chromosome shorter than the row count needs.
C5_PassTotal ==
    run.pc = "raised" => run.error = "reference_unavailable"

\* C6: once the generator is constructed, available_samples is never all
\* homozygous-reference, and every emitted row has a non-reference column.
C6_NonTrivialCallset ==
    /\ run.pc # "absent" =>
          \E k \in 1..Len(run.vcf.available_samples) :
              Core(run.vcf.available_samples[k]) \notin HomRef
    /\ \A i \in RowsOf(run.out) :
          \E k \in 1..Len(run.out[i].samples) :
              Core(run.out[i].samples[k]) \notin HomRef

\* C6 witness: an unphased large-format row was emitted whose columns hold
\* both a reference and a non-reference genotype
C6_Witness ==
    \E i \in RowsOf(run.out) :
        /\ ~cfg.phased /\ cfg.large_format
        /\ \E k \in 1..Len(run.out[i].samples) :
              Core(run.out[i].samples[k]) \in HomRef
        /\ \E k \in 1..Len(run.out[i].samples) :
              Core(run.out[i].samples[k]) \notin HomRef

\* C7: a step of a pass never changes the multiset of genotype values in
\* available_samples, and the row it emits carries exactly that multiset.
C7_MultisetInvariant ==
    [][ (run.pc # "absent" /\ run'.pc # "absent") =>
          /\ Multiset(run'.vcf.available_samples) = Multiset(run.vcf.available_samples)
          /\ Len(run'.out) > Len(run.out) /\ run'.out[Len(run'.out)].kind = "row" =>
                Multiset(run'.out[Len(run'.out)].samples)
                    = Multiset(run.vcf.available_samples) ]_vars

\* C7 witness: two consecutive rows of distinct column order
C7_Witness ==
    \E i \in RowsOf(run.out) :
        /\ i + 1 \in RowsOf(run.out)
        /\ run.out[i].samples # run.out[i + 1].samples
        /\ Multiset(run.out[i].samples) = Multiset(run.out[i + 1].samples)

\* C8: within a chromosome's block positions are strictly increasing, each
\* lies in 1..length-1, and a finished block has num_rows rows.
C8_PositionsSorted ==
    /\ \A i, j \in RowsOf(run.out) :
          (i < j /\ run.out[i].chrom = run.out[j].chrom)
              => run.out[i].pos < run.out[j].pos
    /\ \A i \in RowsOf(run.out) :
          /\ run.out[i].pos >= 1
          /\ run.out[i].pos <= ChromosomeLength(run.out[i].chrom) - 1
    /\ \A k \in 1..Len(cfg.chromosomes) :
          (run.pc \in {"closed", "done"} /\ k <= run.chrom)
              => Cardinality({i \in RowsOf(run.out) :
                                 run.out[i].chrom = cfg.chromosomes[k]})
                     = cfg.num_rows

\* C8 witness: a finished pass over two reference chromosomes with more
\* than one row each
C8_Witness ==
    /\ run.pc = "done"
    /\ cfg.reference_dir
    /\ Len(cfg.chromosomes) = 2
    /\ cfg.num_rows >= 2

\* C9: with a sample count < 1, a row count < 1, an unknown ID style or a
\* configured chromosome missing from the manifest, the invocation never
\* gets past construction: no generator, no line, no output file.
C9_SetupFailFast ==
    ( \/ cfg.num_samples < 1
      \/ cfg.num_rows < 1
      \/ cfg.id_type \notin {"count", "padded_count", "uuid"}
      \/ (cfg.reference_dir /\ \E i \in 1..Len(cfg.chromosomes) :
              cfg.chromosomes[i] \notin ManifestChromosomes) )
    => /\ phase \in {"start", "setup_failed"}
       /\ run.pc = "absent"
       /\ run.out = <<>>
       /\ ~file_opened

\* C9 witness: construction failed on a chromosome absent from the manifest
C9_Witness ==
    /\ phase = "setup_failed"
    /\ cfg.num_samples >= 1 /\ cfg.num_rows >= 1
    /\ cfg.id_type \in {"count", "padded_count", "uuid"}
    /\ cfg.reference_dir
    /\ \E i \in 1..Len(cfg.chromosomes) : cfg.chromosomes[i] = "chr3"

\* C10 (as claimed): when the batch fails on an invalid sample count, row
\* count or ID style it has created no directory, started no worker and
\* submitted no task.
C10_NoSideEffectOnConfigError ==
    ( phase = "setup_failed"
      /\ ( \/ cfg.num_samples < 1
           \/ cfg.num_rows < 1
           \/ cfg.id_type \notin {"count", "padded_count", "uuid"} ) )
    => /\ dir # "created"
       /\ workers = <<>>
       /\ tasks = <<>>

\* C11: the batch submits exactly num_vcfs tasks, each under a file name of
\* its own, and returns only when every one of them has finished, done or
\* failed; it never returns while a task is pending or running.
C11_ReturnsAfterAllTasks ==
    /\ Len(tasks) <= cfg.num_vcfs
    /\ phase \in {"waiting", "returned"} => Len(tasks) = cfg.num_vcfs
    /\ \A i, j \in 1..Len(tasks) : i # j => tasks[i].path # tasks[j].path
    /\ \A t \in 1..Len(tasks) : tasks[t].status = "done" => tasks[t].file_created
    /\ phase = "returned" =>
          /\ \A t \in 1..Len(tasks) : tasks[t].status \in {"done", "failed"}
          /\ \A w \in DOMAIN workers : workers[w].task = 0

\* C11 witness: the batch returned after several tasks, run by more than one
\* worker, of which one failed and one wrote its file
C11_Witness ==
    /\ phase = "returned"
    /\ Len(tasks) >= 2
    /\ \E i, j \in 1..Len(tasks) :
          /\ tasks[i].status = "failed"
          /\ tasks[j].status = "done"
          /\ tasks[i].worker # tasks[j].worker

\* the pass is over: the generator returned, raised, or was left suspended
\* by a consumer that stopped iterating
PassEnded == run.pc \in {"done", "raised", "abandoned"}

\* C12 (as claimed): at most one reference handle is open at any time, and
\* when a pass ends, by exhaustion or by early termination, no handle the
\* generator opened during the pass, header included, is still open.
C12_HandlesReleased ==
    /\ run.handles <= 1
    /\ PassEnded => run.handles = 0

\* the step emitted a row
RowEmitted ==
    /\ run.pc # "absent"
    /\ Len(run'.out) = Len(run.out) + 1
    /\ run'.out[Len(run'.out)].kind = "row"
\* the largest rotation amount the claim allows for S samples
ClaimedMaxRotation(S) ==
    IF S >= 10 THEN (IF S \div 10 >= 1 THEN S \div 10 ELSE 1) ELSE S
\* ring-buffer rotations of a sequence by r places
RotatedLeft(s, r) == [i \in 1..Len(s) |-> s[((i - 1 + r) % Len(s)) + 1]]
RotatedRight(s, r) == [i \in 1..Len(s) |-> s[((i - 1 - r) % Len(s)) + 1]]

\* C13 (as claimed): the sample columns of every emitted row are the
\* working sequence the previous row left, rotated LEFT by some r with
\* 1 <= r <= maxRotation, and become the working sequence of the next row.
C13_RotatedLeft ==
    [][ RowEmitted =>
          /\ \E r \in 1..ClaimedMaxRotation(cfg.num_samples) :
                run'.out[Len(run'.out)].samples
                    = RotatedLeft(run.vcf.available_samples, r)
          /\ run'.vcf.available_samples = run'.out[Len(run'.out)].samples ]_vars

\* C13 (amended): the sample columns of every emitted row are the working
\* sequence the previous row left, rotated RIGHT by some r with
\* 1 <= r <= maxRotation, and become the working sequence of the next row.
C13_RotatedRight ==
    [][ RowEmitted =>
          /\ \E r \in 1..ClaimedMaxRotation(cfg.num_samples) :
                run'.out[Len(run'.out)].samples
                    = RotatedRight(run.vcf.available_samples, r)
          /\ run'.vcf.available_samples = run'.out[Len(run'.out)].samples ]_vars

\* C13 witness: two consecutive rows of ten columns, where maxRotation is
\* 1: the second is the first rotated right by one place, which no left
\* rotation within the bound produces
C13_Witness ==
    \E i \in RowsOf(run.out) :
        /\ i + 1 \in RowsOf(run.out)
        /\ Len(run.out[i].samples) = 10
        /\ run.out[i + 1].samples = RotatedRight(run.out[i].samples, 1)
        /\ run.out[i + 1].samples # RotatedLeft(run.out[i].samples, 1)

\* the canonical alphabet in the order the claim indexes it, from 0
Alphabet == <<"A", "C", "G", "T">>
IndexOf(letter) == CHOOSE i \in 0..3 : Alphabet[i + 1] = letter

\* C14: for every call of _get_ref_alt_at_position, refIndex is in 0..3
\* and k in 1..3; ALT is Alphabet[(index of REF - k) mod 4] when REF is
\* canonical and Alphabet[(refIndex - k) mod 4] otherwise; so ALT is a
\* canonical letter and differs from REF, whatever REF, refIndex and k are.
C14_AltTieBreak ==
    probe.pc = "returned" =>
        LET refIndex == probe.ref_index
            k == probe.allele_index
        IN /\ refIndex \in 0..3
           /\ k \in 1..3
           /\ probe.ref \in Canonical =>
                  probe.alt = Alphabet[((IndexOf(probe.ref) - k) % 4) + 1]
           /\ probe.ref \notin Canonical =>
                  probe.alt = Alphabet[((refIndex - k) % 4) + 1]
           /\ probe.alt \in Canonical
           /\ probe.alt # probe.ref

\* C14 witness: a call on a non-canonical REF with refIndex 0 and k 3,
\* where refIndex - k is negative and the index wraps round to "C"
C14_Witness ==
    /\ probe.pc = "returned"
    /\ probe.ref = "N"
    /\ probe.ref_index = 0
    /\ probe.allele_index = 3
    /\ probe.alt = "C"

\* C15 (as claimed): the QUAL of every emitted row is an integer q with
\* 10 <= q < 100.
C15_QualBelowHundred ==
    \A i \in RowsOf(run.out) :
        /\ run.out[i].qual \in Int
        /\ 10 <= run.out[i].qual
        /\ run.out[i].qual < 100

\* C15 (amended): the QUAL of every emitted row is an integer q with
\* 10 <= q <= 100, both ends included.
C15_QualInClosedRange ==
    \A i \in RowsOf(run.out) :
        /\ run.out[i].qual \in Int
        /\ 10 <= run.out[i].qual
        /\ run.out[i].qual <= 100

\* C15 witness: a pass has emitted a row of QUAL 100 and a row of QUAL
\* below 100
C15_Witness ==
    \E i, j \in RowsOf(run.out) :
        /\ run.out[i].qual = 100
        /\ run.out[j].qual < 100

\* the moves of a pass the state machine allows, with the two ways out of
\* it (an exception, a consumer that stops) and the hand-over to a new run
PassMoves ==
    { <<"absent", "unstarted">>, <<"unstarted", "header_emitted">>,
      <<"header_emitted", "opened">>, <<"opened", "emitting">>,
      <<"emitting", "emitting">>, <<"emitting", "closed">>,
      <<"closed", "opened">>, <<"closed", "done">>,
      <<"unstarted", "raised">>, <<"header_emitted", "raised">>,
      <<"closed", "raised">>, <<"header_emitted", "abandoned">>,
      <<"emitting", "abandoned">>, <<"done", "absent">> }

\* what a pass in position r.pc has emitted: the header first and once,
\* then num_rows rows for each chromosome in configured order, the current
\* chromosome's rows so far last
PassShape(r) ==
    LET n == cfg.num_rows
        before == 1 + (r.chrom - 1) * n
    IN /\ r.pc \in {"absent", "unstarted"} => r.out = <<>>
       /\ r.pc = "header_emitted" => Len(r.out) = 1
       /\ r.pc = "opened" => Len(r.out) = before
       /\ r.pc = "emitting" =>
              /\ r.next >= 2
              /\ Len(r.out) = before + (r.next - 1)
       /\ r.pc = "closed" => Len(r.out) = before + n
       /\ r.pc = "done" =>
              /\ r.chrom = Len(cfg.chromosomes)
              /\ Len(r.out) = 1 + n * Len(cfg.chromosomes)
       /\ \A i \in 1..Len(r.out) :
              IF i = 1 THEN r.out[i].kind = "header"
              ELSE /\ r.out[i].kind = "row"
                   /\ r.out[i].chrom = cfg.chromosomes[((i - 2) \div n) + 1]

\* C16: a pass moves Unstarted -> HeaderEmitted -> (Opened -> Emitting ->
\* Closed) per chromosome -> Done; the header is emitted once and before
\* any row, chromosomes come in configured order, each chromosome's rows
\* are contiguous, and Done is reached after exactly 1 header and num_rows
\* rows per configured chromosome.
C16_PassOrder ==
    [][ /\ run'.pc # run.pc => <<run.pc, run'.pc>> \in PassMoves
        /\ run'.pc = run.pc /\ run.pc # "emitting" => run'.out = run.out
        /\ PassShape(run)' ]_vars

\* C16 witness: a pass over two chromosomes, without a reference, is done
\* after the header and two blocks of more than one row
C16_Witness ==
    /\ run.pc = "done"
    /\ ~cfg.reference_dir
    /\ cfg.chromosomes = <<"chr1", "chr3">>
    /\ cfg.num_rows >= 2
    /\ Len(run.out) = 1 + 2 * cfg.num_rows
    /\ run.out[2].chrom = "chr1"
    /\ run.out[Len(run.out)].chrom = "chr3"

=============================================================================
